---- MODULE Spec2Model ----
(***************************************************************************)
(* A model of the price-files downloader.  The repository holds two        *)
(* scripts that share downloadFile, downloadAllFiles,                      *)
(* processDownloadedFiles and saveMetadata and differ in link extraction   *)
(* and in main:                                                            *)
(*   "cheerio"   src/price-files-downloader.js: axios + cheerio, with the  *)
(*               curl fallback fetchLinksWithCurl;                         *)
(*   "puppeteer" src/unnamed/part_000: a headless browser, no fallback.    *)
(* Strings are sequences of one-character strings, so that split, trim,    *)
(* replace and basename are computed as the code computes them.            *)
(***************************************************************************)
EXTENDS Integers, Sequences, FiniteSets, TLC

(* ------------------------------ bounds --------------------------------- *)

\* The longest list of elements the selector matches on the page.
MaxLinks == 6

\* The most I/O faults (failed fetch, failed request, failed write, failed
\* unzip, ...) the environment injects into one run.
MaxFaults == 2

\* The longest filename given to the sanitization on its own.
MaxNameLen == 3

(* ------------------------------ strings -------------------------------- *)

\* The value of an attribute the element does not carry.
Undefined == <<"undefined">>

Last(s) == s[Len(s)]

\* JavaScript truthiness of a string-or-undefined value.
Truthy(v) == v # Undefined /\ v # <<>>

\* a || b
OrElse(a, b) == IF Truthy(a) THEN a ELSE b

IsSpace(c) == c = " "

RECURSIVE TrimLeft(_)
TrimLeft(s) == IF s # <<>> /\ IsSpace(Head(s)) THEN TrimLeft(Tail(s)) ELSE s

RECURSIVE TrimRight(_)
TrimRight(s) ==
  IF s # <<>> /\ IsSpace(Last(s)) THEN TrimRight(SubSeq(s, 1, Len(s) - 1)) ELSE s

\* String.prototype.trim
Trim(s) == TrimRight(TrimLeft(s))

\* s.startsWith(p)
StartsWith(s, p) == Len(s) >= Len(p) /\ SubSeq(s, 1, Len(p)) = p

\* s.endsWith(p)
EndsWith(s, p) ==
  Len(s) >= Len(p) /\ SubSeq(s, Len(s) - Len(p) + 1, Len(s)) = p

\* The index of the last occurrence of character c in s, 0 when there is none.
RECURSIVE LastIndexOf(_, _)
LastIndexOf(s, c) ==
  IF s = <<>> THEN 0
  ELSE IF Last(s) = c THEN Len(s)
  ELSE LastIndexOf(SubSeq(s, 1, Len(s) - 1), c)

\* s.split("/") followed by taking the last part (parts[parts.length - 1],
\* or .pop()): everything after the last "/".
LastSegment(s) == SubSeq(s, LastIndexOf(s, "/") + 1, Len(s))

Digits == <<"0", "1", "2", "3", "4", "5", "6", "7", "8", "9">>

\* The decimal digits of a small natural number.
RECURSIVE NatToString(_)
NatToString(n) ==
  IF n < 10 THEN <<Digits[n + 1]>>
  ELSE NatToString(n \div 10) \o <<Digits[(n % 10) + 1]>>

LowerOf(c) ==
  CASE c = "A" -> "a" [] c = "B" -> "b" [] c = "C" -> "c"
    [] c = "Z" -> "z" [] c = "I" -> "i" [] c = "P" -> "p"
    [] c = "S" -> "s" [] c = "V" -> "v"
    [] OTHER -> c

\* String.prototype.toLowerCase over the model's alphabet.
ToLowerCase(s) == [k \in 1..Len(s) |-> LowerOf(s[k])]

(* --------------------------- configuration ----------------------------- *)

\* CONFIG.maxConcurrentDownloads
maxConcurrentDownloads == 5

\* `${baseUrl.protocol}//${baseUrl.host}` of CONFIG.url.
Origin ==
  <<"h", "t", "t", "p", "s", ":", "/", "/", "w", "w", "w", ".",
    "k", "o", "n", "z", "u", "m", ".", "h", "r">>

\* CONFIG.url
PageUrl == Origin \o <<"/", "c", "j", "e", "n", "i", "c", "i">>

\* CONFIG.downloadDir (the daily folder) and CONFIG.fileProcessingDir.
DownloadDir == <<"d", "o", "w", "n", "l", "o", "a", "d", "s">>
ProcessingDir == <<"p", "r", "o", "c", "e", "s", "s", "i", "n", "g">>

\* path.join(dir, name) for a name without separators or dot segments.
PathJoin(dir, name) == dir \o <<"/">> \o name

\* path.basename(p)
Basename(p) == LastSegment(p)

\* path.basename(p, ext): the extension is removed when the name ends with
\* it, compared case-sensitively, and is not the whole name.
BasenameExt(p, ext) ==
  LET b == Basename(p)
  IN  IF EndsWith(b, ext) /\ b # ext THEN SubSeq(b, 1, Len(b) - Len(ext)) ELSE b

ZipExt == <<".", "z", "i", "p">>
CsvExt == <<".", "c", "s", "v">>

(* --------------------------- link extraction --------------------------- *)

\* An <a> element matched by CONFIG.selector: its href and download
\* attributes (Undefined when absent) and its text content.
El(href, text, download) == [href |-> href, text |-> text, download |-> download]

Link(url, filename) == [url |-> url, filename |-> filename]

\* `file-${i}.csv`
Placeholder(i) == <<"f", "i", "l", "e", "-">> \o NatToString(i) \o CsvExt

\* The body of the .each callback of extractDownloadLinks (cheerio script)
\* throws a TypeError when href is absent: url.split or url.startsWith is
\* called on undefined.
CheerioThrows(el) == el.href = Undefined

\* The callback with the text tried before the download attribute.
CheerioLinkTextFirst(el, i) ==
  LET url      == el.href
      text     == Trim(el.text)
      first    == OrElse(text, el.download)
      filename == IF ~Truthy(first) THEN LastSegment(url) ELSE first
      absolute == IF StartsWith(url, <<"/">>) THEN Origin \o url ELSE url
  IN  [url |-> absolute, filename |-> OrElse(filename, Placeholder(i))]

\* The link the .each callback of extractDownloadLinks (cheerio script)
\* pushes for the element at 0-based index i, when it does not throw.
CheerioLink(el, i) ==
  LET url      == el.href
      text     == Trim(el.text)
      first    == OrElse(el.download, text)
      filename == IF ~Truthy(first) THEN LastSegment(url) ELSE first
      absolute == IF StartsWith(url, <<"/">>) THEN Origin \o url ELSE url
  IN  Link(absolute, OrElse(filename, Placeholder(i)))

\* The link the .each callback of fetchLinksWithCurl pushes.
CurlLink(el, i) ==
  LET url      == el.href
      text     == Trim(el.text)
      absolute == IF StartsWith(url, <<"/">>) THEN Origin \o url ELSE url
  IN  Link(absolute, OrElse(text, Placeholder(i)))

\* Whether s starts with a URL scheme ("https:").
HasScheme(s) ==
  \E k \in 2..Len(s) : s[k] = ":" /\ \A j \in 1..(k - 1) : s[j] \notin {"/", ":"}

\* The href property of an anchor in the browser: the attribute resolved
\* against the document URL, and "" when the attribute is absent.
DomHref(href) ==
  IF href = Undefined THEN <<>>
  ELSE IF href = <<>> THEN PageUrl
  ELSE IF HasScheme(href) THEN href
  ELSE IF StartsWith(href, <<"/">>) THEN Origin \o href
  ELSE Origin \o <<"/">> \o href

\* The link page.evaluate maps an element to (puppeteer script); now is
\* Date.now().
PuppeteerLink(el, now) ==
  LET href == DomHref(el.href)
  IN  Link(href,
           OrElse(el.download,
             OrElse(Trim(el.text),
               OrElse(LastSegment(href), Placeholder(now)))))

\* The values Date.now() takes in the model.
ClockValues == {1, 2}

\* The elements the selector matches, by position on the page.
Catalogue ==
  << El(<<"/", "a", ".", "c", "s", "v">>, <<"a", ".", "c", "s", "v">>, Undefined),
     El(<<"/", "b", ".", "z", "i", "p">>, <<" ", "b", ".", "z", "i", "p", " ">>, Undefined),
     El(<<"/", "d", "/", "c", ".", "c", "s", "v">>, <<>>, Undefined),
     El(Origin \o <<"/", "e">>, <<"e", " ", "1">>, <<"e", ".", "z", "i", "p">>) >>

ElementAt(k) == Catalogue[((k - 1) % Len(Catalogue)) + 1]

PageOfLength(n) == [k \in 1..n |-> ElementAt(k)]

\* A page whose only matched anchor has no href attribute.
NoHrefPage == << El(Undefined, <<"x">>, Undefined) >>

\* A page whose only link names an archive with an upper-case extension.
UpperZipPage ==
  << El(<<"/", "A", ".", "Z", "I", "P">>, <<"A", ".", "Z", "I", "P">>, Undefined) >>

\* A page whose two links have different names that sanitize to the same one.
CollisionPage ==
  << El(<<"/", "1">>, <<"f", " ", "1">>, Undefined),
     El(<<"/", "2">>, <<"f", "_", "1">>, Undefined) >>

\* The pages the run is given.
Pages ==
  { PageOfLength(n) : n \in 0..MaxLinks }
    \cup { NoHrefPage, UpperZipPage, CollisionPage }

(* ------------------------------- errors -------------------------------- *)

\* An Error object: who threw it and its message.
Err(origin, message) == [origin |-> origin, message |-> message]

NoError == Err("none", "none")

(* -------------------------------- state -------------------------------- *)

VARIABLES
  script,        \* which of the two scripts runs: "cheerio" or "puppeteer"
  page,          \* the elements CONFIG.selector matches on the remote page
  faults,        \* I/O faults injected so far
  pc,            \* where main is
  links,         \* main's links
  dl,            \* per link (1-based position in links): the state of its downloadFile promise
  linksFile,     \* the set of the content of _links.json, NoFile when it was not written
  primaryError,  \* the error extractDownloadLinks threw
  fallbackCalls, \* how many times fetchLinksWithCurl was called
  fallbackError, \* the error fetchLinksWithCurl rejected with
  i,             \* the loop variable of downloadAllFiles
  success,       \* results.success
  failed,        \* results.failed
  p,             \* how many entries of results.success processDownloadedFiles has taken
  processed,     \* the post-processing actions started, in order
  procErrors,    \* how many "Error processing file" lines were logged
  metadata,      \* the record saveMetadata built
  metadataFile,  \* the set of the content of _metadata.json
  jobError,      \* the error of the "Job failed" log line
  logNoLinks,    \* "No download links found" was logged
  logCompleted,  \* "Job completed successfully" was logged
  fnArg,         \* the argument of a function applied on its own
  fnRes          \* the results of the function applied on its own

envVars == <<script, page, fnArg, fnRes>>
linkVars == <<links, linksFile, primaryError, fallbackCalls, fallbackError>>
dlVars == <<i, dl, success, failed>>
procVars == <<p, processed, procErrors>>
endVars == <<metadata, metadataFile, jobError, logNoLinks, logCompleted>>

vars == <<envVars, faults, pc, linkVars, dlVars, procVars, endVars>>

Scripts == {"cheerio", "puppeteer"}

NoFile == {}

NoMetadata == [totalFiles |-> -1]

\* No function is applied on its own.
NoArg == <<"none">>

Init ==
  /\ script \in Scripts
  /\ page \in Pages
  /\ fnArg = NoArg
  /\ fnRes = <<>>
  /\ faults = 0
  /\ pc = "setup"
  /\ links = <<>>
  /\ dl = <<>>
  /\ linksFile = NoFile
  /\ primaryError = NoError
  /\ fallbackCalls = 0
  /\ fallbackError = NoError
  /\ i = 0
  /\ success = <<>>
  /\ failed = <<>>
  /\ p = 0
  /\ processed = <<>>
  /\ procErrors = 0
  /\ metadata = NoMetadata
  /\ metadataFile = NoFile
  /\ jobError = NoError
  /\ logNoLinks = FALSE
  /\ logCompleted = FALSE

\* The environment may inject one more fault.
CanFail == faults < MaxFaults

Fault == faults' = faults + 1

(* -------------------------------- main --------------------------------- *)

\* A catch block that ends the run without logging the failure.
JobFailedSilently(e) ==
  /\ UNCHANGED jobError
  /\ pc' = "exit"

\* A catch block that reports the first error of the run instead of the one
\* it caught.
JobFailedWithFirstError(e) ==
  /\ jobError' = IF primaryError # NoError THEN primaryError ELSE e
  /\ pc' = "exit"

\* The catch block of main: logger.error(`Job failed: ${error.message}`).
JobFailed(e) ==
  /\ jobError' = e
  /\ pc' = "exit"

\* setupDirectories: mkdirSync throws, or both directories exist afterwards.
SetupDirectories ==
  /\ pc = "setup"
  /\ \/ /\ pc' = "extract"
        /\ UNCHANGED <<faults, endVars>>
     \/ /\ CanFail
        /\ Fault
        /\ JobFailed(Err("setup", "mkdir"))
        /\ UNCHANGED <<metadata, metadataFile, logNoLinks, logCompleted>>
  /\ UNCHANGED <<envVars, linkVars, dlVars, procVars>>

\* main once it holds the links: the early return on an empty list, and
\* else the call of downloadAllFiles up to its loop.
GotLinks(ls) ==
  /\ links' = ls
  /\ dl' = [k \in 1..Len(ls) |-> "idle"]
  /\ IF Len(ls) = 0
       THEN /\ logNoLinks' = TRUE
            /\ pc' = "exit"
       ELSE /\ pc' = "batch"
            /\ UNCHANGED logNoLinks
  /\ UNCHANGED <<i, success, failed, jobError>>

\* What the catch block of main's inner try does with the primary's error.
PrimaryFailed(e) ==
  /\ primaryError' = e
  /\ pc' = "fallback"
  /\ UNCHANGED <<links, dl, i, success, failed, jobError, logNoLinks, linksFile>>

\* extractDownloadLinks of the cheerio script and main's handling of its
\* result: axios.get rejects; or the .each callback throws; or writing
\* _links.json throws; or the links are returned.
ExtractDownloadLinks ==
  /\ pc = "extract"
  /\ script = "cheerio"
  /\ \/ /\ CanFail
        /\ Fault
        /\ PrimaryFailed(Err("primary", "fetch"))
     \/ /\ \E k \in 1..Len(page) : CheerioThrows(page[k])
        /\ PrimaryFailed(Err("primary", "TypeError"))
        /\ UNCHANGED faults
     \/ /\ \A k \in 1..Len(page) : ~CheerioThrows(page[k])
        /\ CanFail
        /\ Fault
        /\ PrimaryFailed(Err("primary", "write _links.json"))
     \/ /\ \A k \in 1..Len(page) : ~CheerioThrows(page[k])
        /\ LET ls == [k \in 1..Len(page) |-> CheerioLink(page[k], k - 1)]
           IN  /\ linksFile' = {ls}
               /\ GotLinks(ls)
        /\ UNCHANGED <<faults, primaryError>>
  /\ UNCHANGED <<envVars, fallbackCalls, fallbackError, procVars,
                 metadata, metadataFile, logCompleted>>

\* fetchLinksWithCurl, called from the catch block of main's inner try, and
\* main's handling of its result: curl fails; or parsing throws; or the
\* links are resolved.
FetchLinksWithCurl ==
  /\ pc = "fallback"
  /\ fallbackCalls' = fallbackCalls + 1
  /\ \/ /\ CanFail
        /\ Fault
        /\ fallbackError' = Err("fallback", "curl")
        /\ JobFailed(fallbackError')
        /\ UNCHANGED <<links, dl, i, success, failed, logNoLinks>>
     \/ /\ \E k \in 1..Len(page) : page[k].href = Undefined
        /\ fallbackError' = Err("fallback", "TypeError")
        /\ JobFailed(fallbackError')
        /\ UNCHANGED <<faults, links, dl, i, success, failed, logNoLinks>>
     \/ /\ \A k \in 1..Len(page) : page[k].href # Undefined
        /\ GotLinks([k \in 1..Len(page) |-> CurlLink(page[k], k - 1)])
        /\ UNCHANGED <<faults, fallbackError>>
  /\ UNCHANGED <<envVars, linksFile, primaryError, procVars,
                 metadata, metadataFile, logCompleted>>

\* extractDownloadLinks of the puppeteer script and main's handling of its
\* result: launching the browser or loading the page fails; or
\* waitForSelector times out because nothing matches; or the links are
\* returned.  This main has no fallback: the error reaches its catch block.
ExtractDownloadLinksPuppeteer ==
  /\ pc = "extract"
  /\ script = "puppeteer"
  /\ \/ /\ CanFail
        /\ Fault
        /\ primaryError' = Err("primary", "navigation")
        /\ JobFailed(primaryError')
        /\ UNCHANGED <<links, dl, i, success, failed, logNoLinks>>
     \/ /\ Len(page) = 0
        /\ primaryError' = Err("primary", "waitForSelector timeout")
        /\ JobFailed(primaryError')
        /\ UNCHANGED <<faults, links, dl, i, success, failed, logNoLinks>>
     \/ /\ Len(page) > 0
        /\ \E now \in ClockValues :
             GotLinks([k \in 1..Len(page) |-> PuppeteerLink(page[k], now)])
        /\ UNCHANGED <<faults, primaryError>>
  /\ UNCHANGED <<envVars, linksFile, fallbackCalls, fallbackError, procVars,
                 metadata, metadataFile, logCompleted>>

(* ----------------------------- downloading ----------------------------- *)

\* The characters the regular expression /[^a-zA-Z0-9.-]/ keeps.
SafeChars ==
  { "a", "b", "c", "d", "e", "f", "g", "h", "i", "j", "k", "l", "m",
    "n", "o", "p", "q", "r", "s", "t", "u", "v", "w", "x", "y", "z",
    "A", "B", "C", "D", "E", "F", "G", "H", "I", "J", "K", "L", "M",
    "N", "O", "P", "Q", "R", "S", "T", "U", "V", "W", "X", "Y", "Z",
    "0", "1", "2", "3", "4", "5", "6", "7", "8", "9", ".", "-" }

\* The replacement by two underscores: each character outside the class,
\* the underscore included, becomes "__".
RECURSIVE SanitizeDoubling(_)
SanitizeDoubling(filename) ==
  IF filename = <<>> THEN <<>>
  ELSE (IF Head(filename) \in SafeChars THEN <<Head(filename)>> ELSE <<"_", "_">>)
       \o SanitizeDoubling(Tail(filename))

\* filename.replace(/[^a-zA-Z0-9.-]/g, "_")
Sanitize(filename) ==
  [k \in 1..Len(filename) |-> IF filename[k] \in SafeChars THEN filename[k] ELSE "_"]

\* A filePath made of the suggested filename as it is.
FilePathUnsanitized(link) == PathJoin(DownloadDir, link.filename)

\* The filePath downloadFile writes to.
FilePath(link) == PathJoin(DownloadDir, Sanitize(link.filename))

\* A slice that takes one link too many.
BatchOfOneMore(i0) ==
  { k \in 1..Len(links) : i0 < k /\ k <= i0 + maxConcurrentDownloads + 1 }

\* links.slice(i0, i0 + CONFIG.maxConcurrentDownloads), as 1-based positions.
BatchOf(i0) ==
  { k \in 1..Len(links) : i0 < k /\ k <= i0 + maxConcurrentDownloads }

\* The states of a downloadFile promise with its .then/.catch handlers run.
Settled == {"resolved", "rejected"}

\* Promise.race in the place of Promise.all: the first promise to settle
\* ends the wait.
BatchSettledAny == \E k \in BatchOf(i) : dl[k] \in {"resolved", "rejected"}

\* Promise.all(promises) of the current batch resolves.
BatchSettled == \A k \in BatchOf(i) : dl[k] \in Settled

\* The head of the loop of downloadAllFiles: the next batch is mapped to
\* downloadFile calls, each of which issues its request; or the loop is
\* over and the results are returned to main.
DownloadAllFiles ==
  /\ pc = "batch"
  /\ IF i < Len(links)
       THEN /\ dl' = [k \in 1..Len(links) |->
                        IF k \in BatchOf(i) THEN "requesting" ELSE dl[k]]
            /\ pc' = "await"
       ELSE /\ pc' = "process"
            /\ UNCHANGED dl
  /\ UNCHANGED <<envVars, faults, links, linksFile, primaryError, fallbackCalls,
                 fallbackError, i, success, failed, procVars, endVars>>

\* The loop without the await: it goes on while promises are pending.
PromiseAllNotAwaited ==
  /\ pc = "await"
  /\ i' = i + maxConcurrentDownloads
  /\ pc' = "batch"
  /\ UNCHANGED <<envVars, faults, linkVars, dl, success, failed, procVars, endVars>>

\* await Promise.all(promises) returns and the loop variable advances.
PromiseAll ==
  /\ pc = "await"
  /\ BatchSettled
  /\ i' = i + maxConcurrentDownloads
  /\ pc' = "batch"
  /\ UNCHANGED <<envVars, faults, linkVars, dl, success, failed, procVars, endVars>>

\* .catch(...).then(...) in the place of .then(...).catch(...): the value the
\* catch handler returns is recorded as a success too.
RecordFailureThenSuccess(k, message) ==
  /\ failed' = Append(failed, [idx |-> k, url |-> links[k].url,
                               filename |-> links[k].filename, error |-> message])
  /\ success' = Append(success, [idx |-> k, url |-> links[k].url,
                                 filename |-> links[k].filename, filePath |-> <<>>])
  /\ dl' = [dl EXCEPT ![k] = "rejected"]

\* The .catch handler of downloadAllFiles.  (idx is the link's position; the
\* code's entry is the link's fields and the message.)
RecordFailure(k, message) ==
  /\ failed' = Append(failed, [idx |-> k, url |-> links[k].url,
                               filename |-> links[k].filename, error |-> message])
  /\ dl' = [dl EXCEPT ![k] = "rejected"]
  /\ UNCHANGED success

\* The .then handler of downloadAllFiles.
RecordSuccess(k, filePath) ==
  /\ success' = Append(success, [idx |-> k, url |-> links[k].url,
                                 filename |-> links[k].filename, filePath |-> filePath])
  /\ dl' = [dl EXCEPT ![k] = "resolved"]
  /\ UNCHANGED failed

\* The messages of the errors axios rejects a request with.
RequestErrors == {"timeout", "request failed"}

\* await axios(...) of downloadFile rejects: no response, an error status,
\* or the timeout before the response; an empty URL is always rejected.
RequestRejects(k) ==
  /\ dl[k] = "requesting"
  /\ \/ /\ CanFail
        /\ Fault
        /\ \E message \in RequestErrors : RecordFailure(k, message)
     \/ /\ links[k].url = <<>>
        /\ RecordFailure(k, "invalid URL")
        /\ UNCHANGED faults
  /\ UNCHANGED <<envVars, pc, linkVars, i, procVars, endVars>>

\* await axios(...) of downloadFile resolves: the write stream is created
\* and the response body is piped into it.
ResponseArrives(k) ==
  /\ dl[k] = "requesting"
  /\ links[k].url # <<>>
  /\ dl' = [dl EXCEPT ![k] = "streaming"]
  /\ UNCHANGED <<envVars, faults, pc, linkVars, i, success, failed, procVars, endVars>>

\* The body ended, the writer finished and emits "close" with no error set.
WriterClose(k) ==
  /\ dl[k] = "streaming"
  /\ RecordSuccess(k, FilePath(links[k]))
  /\ UNCHANGED <<envVars, faults, pc, linkVars, i, procVars, endVars>>

\* The writer emits "error": the promise is rejected with it (the "close"
\* that follows finds error set and does nothing).
WriterError(k) ==
  /\ dl[k] = "streaming"
  /\ CanFail
  /\ Fault
  /\ RecordFailure(k, "write")
  /\ UNCHANGED <<envVars, pc, linkVars, i, procVars, endVars>>

\* The response stream errors or is aborted by the timeout once the response
\* has started.  pipe does not end or destroy the writer when its source
\* fails, and no handler is attached to response.data: neither "error" nor
\* "close" of the writer follows, and the promise stays pending.
BodyAborts(k) ==
  /\ dl[k] = "streaming"
  /\ CanFail
  /\ Fault
  /\ dl' = [dl EXCEPT ![k] = "stalled"]
  /\ UNCHANGED <<envVars, pc, linkVars, i, success, failed, procVars, endVars>>

(* --------------------------- post-processing --------------------------- *)

\* filename.toLowerCase().endsWith(".zip")
IsZip(filename) == EndsWith(ToLowerCase(filename), ZipExt)

\* path.join(CONFIG.fileProcessingDir, path.basename(filename, ".zip"))
ExtractDir(filename) == PathJoin(ProcessingDir, BasenameExt(filename, ZipExt))

\* path.join(CONFIG.fileProcessingDir, filename)
DestPath(filename) == PathJoin(ProcessingDir, filename)

\* A loop body that logs the error and throws it again.
ProcessingErrorRethrown ==
  /\ procErrors' = procErrors + 1
  /\ p' = p
  /\ pc' = "exit"

\* The catch block of the loop body: the error is logged and the loop goes on.
ProcessingError ==
  /\ procErrors' = procErrors + 1
  /\ p' = p + 1
  /\ pc' = "process"

\* One pass of the loop of processDownloadedFiles up to its next suspension:
\* a zip file gets its directory and the unzip command is started (or
\* mkdirSync throws); another file is copied (or copyFileSync throws); after
\* the last entry the function returns to main.
ProcessDownloadedFiles ==
  /\ pc = "process"
  /\ IF p < Len(success)
       THEN LET file     == success[p + 1]
                filename == Basename(file.filePath)
            IN  IF IsZip(filename)
                  THEN /\ processed' = Append(processed,
                            [idx |-> file.idx, action |-> "extract",
                             dest |-> ExtractDir(filename)])
                       /\ \/ /\ pc' = "unzip"
                             /\ UNCHANGED <<faults, p, procErrors>>
                          \/ /\ CanFail
                             /\ Fault
                             /\ ProcessingError
                  ELSE /\ processed' = Append(processed,
                            [idx |-> file.idx, action |-> "copy",
                             dest |-> DestPath(filename)])
                       /\ \/ /\ p' = p + 1
                             /\ UNCHANGED <<faults, pc, procErrors>>
                          \/ /\ CanFail
                             /\ Fault
                             /\ ProcessingError
       ELSE /\ pc' = "save"
            /\ UNCHANGED <<faults, procVars>>
  /\ UNCHANGED <<envVars, linkVars, dlVars, endVars>>

\* The callback of exec("unzip ..."): the promise resolves, or rejects into
\* the catch block of the loop body.
UnzipExit ==
  /\ pc = "unzip"
  /\ \/ /\ p' = p + 1
        /\ pc' = "process"
        /\ UNCHANGED <<faults, procErrors>>
     \/ /\ CanFail
        /\ Fault
        /\ ProcessingError
  /\ UNCHANGED <<envVars, linkVars, dlVars, processed, endVars>>

(* ------------------------------ metadata ------------------------------- *)

\* A total that counts only the successful downloads.
MetadataMiscounted(results) ==
  [ downloadDirectory   |-> DownloadDir,
    totalFiles          |-> Len(results.success),
    successfulDownloads |-> Len(results.success),
    failedDownloads     |-> Len(results.failed),
    failedFiles         |-> [k \in 1..Len(results.failed) |-> results.failed[k].filename] ]

\* The metadata object of saveMetadata (without its timestamp).
Metadata(results) ==
  [ downloadDirectory   |-> DownloadDir,
    totalFiles          |-> Len(results.success) + Len(results.failed),
    successfulDownloads |-> Len(results.success),
    failedDownloads     |-> Len(results.failed),
    failedFiles         |-> [k \in 1..Len(results.failed) |-> results.failed[k].filename] ]

\* saveMetadata with the write in a try block of its own that only logs: the
\* run goes on to log its completion.
SaveMetadataWriteErrorCaught ==
  /\ pc = "save"
  /\ metadata' = [ downloadDirectory   |-> DownloadDir,
                   totalFiles          |-> Len(success) + Len(failed),
                   successfulDownloads |-> Len(success),
                   failedDownloads     |-> Len(failed),
                   failedFiles         |-> [k \in 1..Len(failed) |-> failed[k].filename] ]
  /\ \/ /\ metadataFile' = {metadata'}
        /\ UNCHANGED faults
     \/ /\ CanFail
        /\ Fault
        /\ UNCHANGED metadataFile
  /\ logCompleted' = TRUE
  /\ pc' = "exit"
  /\ UNCHANGED <<envVars, linkVars, dlVars, procVars, logNoLinks, jobError>>

\* saveMetadata and the end of main: the record is built and written and the
\* job is logged as completed, or writeFileSync throws into main's catch.
SaveMetadata ==
  /\ pc = "save"
  /\ metadata' = Metadata([success |-> success, failed |-> failed])
  /\ \/ /\ metadataFile' = {metadata'}
        /\ logCompleted' = TRUE
        /\ pc' = "exit"
        /\ UNCHANGED <<faults, jobError>>
     \/ /\ CanFail
        /\ Fault
        /\ JobFailed(Err("metadata", "write _metadata.json"))
        /\ UNCHANGED <<metadataFile, logCompleted>>
  /\ UNCHANGED <<envVars, linkVars, dlVars, procVars, logNoLinks>>

(* ---------------------------- specification ---------------------------- *)

Next ==
  \/ SetupDirectories
  \/ ExtractDownloadLinks
  \/ FetchLinksWithCurl
  \/ ExtractDownloadLinksPuppeteer
  \/ DownloadAllFiles
  \/ PromiseAll
  \/ \E k \in 1..Len(links) : RequestRejects(k)
  \/ \E k \in 1..Len(links) : ResponseArrives(k)
  \/ \E k \in 1..Len(links) : WriterClose(k)
  \/ \E k \in 1..Len(links) : WriterError(k)
  \/ \E k \in 1..Len(links) : BodyAborts(k)
  \/ ProcessDownloadedFiles
  \/ UnzipExit
  \/ SaveMetadata

Spec == Init /\ [][Next]_vars

\* The event loop runs every continuation that is ready, and the I/O layer
\* delivers to every pending request a response or a rejection and to every
\* open writer its close or its error.
Fairness ==
  /\ WF_vars(SetupDirectories)
  /\ WF_vars(ExtractDownloadLinks)
  /\ WF_vars(FetchLinksWithCurl)
  /\ WF_vars(ExtractDownloadLinksPuppeteer)
  /\ WF_vars(DownloadAllFiles)
  /\ WF_vars(PromiseAll)
  /\ \A k \in 1..(MaxLinks + 1) :
       /\ WF_vars(k <= Len(links) /\ (RequestRejects(k) \/ ResponseArrives(k)))
       /\ WF_vars(k <= Len(links) /\ (WriterClose(k) \/ WriterError(k)))

FairSpec == Spec /\ Fairness

(* ------------------- functions applied on their own -------------------- *)

\* The state of main in a specification that only applies a function.
MainIdle ==
  /\ script = "cheerio"
  /\ page = <<>>
  /\ faults = 0
  /\ links = <<>>
  /\ dl = <<>>
  /\ linksFile = NoFile
  /\ primaryError = NoError
  /\ fallbackCalls = 0
  /\ fallbackError = NoError
  /\ i = 0
  /\ success = <<>>
  /\ failed = <<>>
  /\ p = 0
  /\ processed = <<>>
  /\ procErrors = 0
  /\ metadata = NoMetadata
  /\ metadataFile = NoFile
  /\ jobError = NoError
  /\ logNoLinks = FALSE
  /\ logCompleted = FALSE

mainVars == <<script, page, faults, linkVars, dlVars, procVars, endVars>>

\* The characters of the filenames given to the sanitization.
NameChars == {"a", "Z", "7", ".", "-", "_", " ", "/"}

\* The strings over a set of characters of length at most n.
StringsUpTo(chars, n) == UNION { [1..m -> chars] : m \in 0..n }

InitSanitize ==
  /\ MainIdle
  /\ pc = "sanitize"
  /\ fnArg \in StringsUpTo(NameChars, MaxNameLen)
  /\ fnRes = <<>>

\* The sanitization of downloadFile applied to the filename.
SanitizeFilename ==
  /\ pc = "sanitize"
  /\ fnRes = <<>>
  /\ fnRes' = <<Sanitize(fnArg)>>
  /\ UNCHANGED <<mainVars, pc, fnArg>>

\* The sanitization applied to its own result.
SanitizeAgain ==
  /\ pc = "sanitize"
  /\ Len(fnRes) = 1
  /\ fnRes' = Append(fnRes, Sanitize(fnRes[1]))
  /\ UNCHANGED <<mainVars, pc, fnArg>>

NextSanitize == SanitizeFilename \/ SanitizeAgain

SpecSanitize == InitSanitize /\ [][NextSanitize]_vars

\* The outcomes of one extraction callback on one element.
NotRun == [state |-> "not run"]
Threw == [state |-> "threw"]
Returned(link) == [state |-> "link", link |-> link]

\* The .each callback of extractDownloadLinks (cheerio script) on one element.
CheerioEach(el, idx) ==
  IF CheerioThrows(el) THEN Threw ELSE Returned(CheerioLink(el, idx))

\* The .each callback of fetchLinksWithCurl on one element: url.startsWith
\* throws a TypeError when href is absent.
CurlEach(el, idx) ==
  IF el.href = Undefined THEN Threw ELSE Returned(CurlLink(el, idx))

\* The map callback of page.evaluate (puppeteer script) on one element.
PuppeteerEach(el, now) == Returned(PuppeteerLink(el, now))

\* The href attributes, text contents and download attributes of the
\* elements given to the callbacks: absent, empty, root-relative, relative,
\* ending in "/", absolute; blank and padded texts.
Hrefs ==
  { Undefined, <<>>, <<"/", "a">>, <<"d", "/", "a">>, <<"/", "d", "/">>,
    Origin \o <<"/", "e">> }
Texts == { <<>>, <<" ">>, <<"t">>, <<" ", "t", " ">> }
Downloads == { Undefined, <<>>, <<"n">> }

InitExtract ==
  /\ MainIdle
  /\ pc = "each"
  /\ \E h \in Hrefs, t \in Texts, d \in Downloads, idx \in {0, 1} :
       fnArg = [el |-> El(h, t, d), idx |-> idx]
  /\ fnRes = [cheerio |-> NotRun, curl |-> NotRun, puppeteer |-> NotRun]

\* The primary extraction of the cheerio script takes the element.
EachCheerio ==
  /\ pc = "each"
  /\ fnRes.cheerio = NotRun
  /\ fnRes' = [fnRes EXCEPT !.cheerio = CheerioEach(fnArg.el, fnArg.idx)]
  /\ UNCHANGED <<mainVars, pc, fnArg>>

\* The fallback extraction takes the element.
EachCurl ==
  /\ pc = "each"
  /\ fnRes.curl = NotRun
  /\ fnRes' = [fnRes EXCEPT !.curl = CurlEach(fnArg.el, fnArg.idx)]
  /\ UNCHANGED <<mainVars, pc, fnArg>>

\* The primary extraction of the puppeteer script takes the element.
EachPuppeteer ==
  /\ pc = "each"
  /\ fnRes.puppeteer = NotRun
  /\ \E now \in ClockValues :
       fnRes' = [fnRes EXCEPT !.puppeteer = PuppeteerEach(fnArg.el, now)]
  /\ UNCHANGED <<mainVars, pc, fnArg>>

NextExtract == EachCheerio \/ EachCurl \/ EachPuppeteer

SpecExtract == InitExtract /\ [][NextExtract]_vars

(* ------------------------------- claims -------------------------------- *)

\* How many entries of a result list belong to the link at position k.
Count(list, k) == Cardinality({ q \in 1..Len(list) : list[q].idx = k })

\* downloadAllFiles has returned its results to main.
DownloadsReturned == pc \in {"process", "unzip", "save"} \/ metadata # NoMetadata

\* The 0-based number of the batch the link at position k belongs to.
BatchIndex(k) == (k - 1) \div maxConcurrentDownloads

\* The downloads that were started and have not settled.
InFlight == { k \in 1..Len(links) : dl[k] \in {"requesting", "streaming", "stalled"} }

\* C1: once downloadAllFiles has returned, every link has exactly one entry
\* in results.success and results.failed together, carrying that link's
\* fields, so that |success| + |failed| = N.
C1_OutcomePartition ==
  DownloadsReturned =>
    /\ Len(success) + Len(failed) = Len(links)
    /\ \A k \in 1..Len(links) : Count(success, k) + Count(failed, k) = 1
    /\ \A q \in 1..Len(success) :
         /\ success[q].url = links[success[q].idx].url
         /\ success[q].filename = links[success[q].idx].filename
    /\ \A q \in 1..Len(failed) :
         /\ failed[q].url = links[failed[q].idx].url
         /\ failed[q].filename = links[failed[q].idx].filename

\* C1 witness: downloadAllFiles returned from a run of two batches with
\* both successes and failures.
C1_Witness ==
  /\ pc = "process"
  /\ Len(links) > maxConcurrentDownloads
  /\ Len(success) > 0
  /\ Len(failed) > 1

\* C2: a download of a later batch is started only when every download of
\* every earlier batch has settled (and so was started before it).
C2_BatchBarrier ==
  \A j \in 1..Len(links) : \A k \in 1..Len(links) :
    (BatchIndex(j) < BatchIndex(k) /\ dl[k] # "idle") => dl[j] \in Settled

\* C2 witness: a download of the second batch has its request in flight
\* after a first batch that held a failure.
C2_Witness ==
  /\ \E k \in 1..Len(links) : BatchIndex(k) = 1 /\ dl[k] = "requesting"
  /\ Len(failed) > 0
  /\ Len(success) > 0

\* C3: never more than maxConcurrentDownloads downloads are started and
\* unsettled.
C3_BoundedConcurrency == Cardinality(InFlight) <= maxConcurrentDownloads

\* C3 witness: a full batch is in flight, and links remain for a later one.
C3_Witness ==
  /\ Cardinality(InFlight) = maxConcurrentDownloads
  /\ \E k \in 1..Len(links) : dl[k] = "idle"

\* The link at position k has failed to download: its request was rejected,
\* its writer failed, or its response body was aborted.
DownloadFailed(k) == dl[k] \in {"rejected", "stalled"}

\* C4: a download that failed is recorded in results.failed with a reason
\* and not in results.success.
C4_FailureRecorded ==
  \A k \in 1..Len(links) :
    DownloadFailed(k) =>
      /\ Count(failed, k) = 1
      /\ Count(success, k) = 0
      /\ \A q \in 1..Len(failed) : failed[q].idx = k => failed[q].error # ""

\* The primary link extraction has finished.
PrimaryDone == pc \notin {"setup", "extract"}

\* C5: at the end of a run whose primary extraction failed the fallback was
\* called exactly once; while the primary has not failed it was never called.
C5_FallbackOnce ==
  /\ (primaryError = NoError) => fallbackCalls = 0
  /\ (primaryError # NoError /\ pc # "fallback") => fallbackCalls = 1

\* Both link extractions failed.
BothFailed == primaryError # NoError /\ fallbackError # NoError

\* C6: when both extractions failed the run is over with the job failure
\* logged, and no download, post-processing action or metadata write
\* happened.
C6_AbortBeforeDownloads ==
  BothFailed =>
    /\ pc = "exit"
    /\ jobError # NoError
    /\ \A k \in 1..Len(dl) : dl[k] = "idle"
    /\ success = <<>> /\ failed = <<>>
    /\ processed = <<>>
    /\ metadata = NoMetadata /\ metadataFile = NoFile
    /\ ~logCompleted

\* C6 witness: both extractions failed on a page that holds links.
C6_Witness == BothFailed /\ pc = "exit" /\ Len(page) > 0

\* C7 as stated: when both extractions failed the job failure reports the
\* primary's error.
C7_PrimaryErrorReported == BothFailed => jobError = primaryError

\* C7 amended: when both extractions failed the job failure reports the
\* fallback's error, not the primary's.
C7_FallbackErrorReported ==
  BothFailed => jobError = fallbackError /\ jobError # primaryError

\* C7 witness: both extractions failed on a page that holds links.
C7_Witness ==
  /\ BothFailed
  /\ jobError # NoError
  /\ primaryError.message = "fetch"
  /\ Len(page) > 1

\* C8: a run without I/O faults on a page where the selector matches nothing
\* ends as an empty run: no error, no fallback, no download, no job failure.
C8_EmptyRun ==
  (Len(page) = 0 /\ faults = 0 /\ PrimaryDone) =>
    /\ primaryError = NoError
    /\ fallbackCalls = 0
    /\ jobError = NoError
    /\ links = <<>>
    /\ pc = "exit" /\ logNoLinks

\* C9: the metadata saveMetadata built counts every extracted link once, and
\* its failed-filename list is the filenames of the links in results.failed.
C9_MetadataCounts ==
  metadata # NoMetadata =>
    /\ metadata.totalFiles = metadata.successfulDownloads + metadata.failedDownloads
    /\ metadata.totalFiles = Len(links)
    /\ metadata.successfulDownloads = Len(success)
    /\ Len(metadata.failedFiles) = metadata.failedDownloads
    /\ Len(failed) = metadata.failedDownloads
    /\ \A q \in 1..Len(failed) :
         metadata.failedFiles[q] = links[failed[q].idx].filename

\* C9 witness: metadata of a run of two batches with a failed download.
C9_Witness ==
  /\ metadata # NoMetadata
  /\ metadata.totalFiles > maxConcurrentDownloads
  /\ metadata.failedDownloads > 0
  /\ metadata.successfulDownloads > 0

\* A step taken inside processDownloadedFiles stays in it or returns to main
\* before saveMetadata, logs no job failure, has started the actions of
\* the entries taken so far in the order of results.success, and returns
\* only with every entry taken.
ProcessingStep ==
  pc \in {"process", "unzip"} =>
    /\ pc' \in {"process", "unzip", "save"}
    /\ jobError' = NoError
    /\ Len(processed') \in {p', p' + 1}
    /\ \A q \in 1..Len(processed') : processed'[q].idx = success[q].idx
    /\ (pc' = "save" => Len(processed') = Len(success))

\* C10: processDownloadedFiles leaves only by returning to main, which then
\* calls saveMetadata; it takes the entries of results.success in order,
\* whatever fails, and has taken all of them when it returns.
C10_ProcessingNeverRaises == [][ProcessingStep]_vars

\* C10 witness: processing returned after an extraction and a copy failed.
C10_Witness ==
  /\ pc = "save"
  /\ procErrors = 2
  /\ Len(processed) > 2
  /\ \E q \in 1..Len(processed) : processed[q].action = "extract"

\* C11: every post-processing action is the one its file's name selects: an
\* archive (a name ending in .zip, as the post-processor classifies it) is
\* extracted into processingDir/<name without the extension>, a directory
\* whose name no longer ends in the archive extension; any other file is
\* copied to processingDir/<name>.
C11_ExtractOrCopy ==
  \A q \in 1..Len(processed) :
    LET name == Basename(success[q].filePath)
        dest == processed[q].dest
    IN  IF IsZip(name)
          THEN /\ processed[q].action = "extract"
               /\ dest = PathJoin(ProcessingDir, SubSeq(name, 1, Len(name) - Len(ZipExt)))
               /\ ~IsZip(Basename(dest))
          ELSE /\ processed[q].action = "copy"
               /\ dest = PathJoin(ProcessingDir, name)

\* C12: sanitizing a sanitized filename changes nothing.
C12_SanitizeIdempotent == Len(fnRes) = 2 => fnRes[2] = fnRes[1]

\* C12 witness: a filename with two characters outside the class was
\* sanitized twice, and the first pass changed it.
C12_Witness ==
  /\ Len(fnRes) = 2
  /\ fnRes[1] # fnArg
  /\ Cardinality({ k \in 1..Len(fnArg) : fnArg[k] \notin SafeChars }) > 1

\* A value that is present and not the empty string.
Present(v) == v # Undefined /\ v # <<>>

\* A generated placeholder name: file-<number>.csv.
IsPlaceholder(name) ==
  /\ StartsWith(name, <<"f", "i", "l", "e", "-">>)
  /\ EndsWith(name, <<".", "c", "s", "v">>)
  /\ Len(name) > 9

\* The filename the priority order gives the link made from element el.
FollowsPriority(el, link) ==
  LET text    == Trim(el.text)
      segment == LastSegment(link.url)
  IN  /\ link.filename # <<>>
      /\ IF Present(el.download) THEN link.filename = el.download
         ELSE IF text # <<>> THEN link.filename = text
         ELSE IF segment # <<>> THEN link.filename = segment
         ELSE IsPlaceholder(link.filename)

\* C13: every link a primary extraction makes has as filename the first
\* non-empty of: download attribute, trimmed text, last segment of the URL,
\* placeholder; the filename is not empty.
C13_FilenamePriority ==
  pc = "each" =>
    \A s \in {"cheerio", "puppeteer"} :
      fnRes[s].state = "link" => FollowsPriority(fnArg.el, fnRes[s].link)

\* C13 witness: the cheerio extraction made a link from an element with a
\* download attribute and a different text, and the puppeteer extraction
\* one.
C13_Witness ==
  /\ pc = "each"
  /\ fnRes.cheerio.state = "link"
  /\ fnRes.puppeteer.state = "link"
  /\ Present(fnArg.el.download)
  /\ Trim(fnArg.el.text) # <<>>
  /\ Trim(fnArg.el.text) # fnArg.el.download

\* C14: every extraction, primary or fallback, makes a link from the
\* element whatever its href, and the link's URL is not empty and absolute.
C14_AbsoluteUrl ==
  pc = "each" =>
    \A s \in {"cheerio", "curl", "puppeteer"} :
      fnRes[s] # NotRun =>
        /\ fnRes[s].state = "link"
        /\ fnRes[s].link.url # <<>>
        /\ HasScheme(fnRes[s].link.url)

\* C18: on the same element the primary extraction of the cheerio script
\* and its fallback make the same link.
C18_SameLinks ==
  (pc = "each" /\ fnRes.cheerio # NotRun /\ fnRes.curl # NotRun) =>
    fnRes.cheerio = fnRes.curl

\* saveMetadata built its record and _metadata.json was not written.
MetadataWriteFailed == metadata # NoMetadata /\ metadataFile = NoFile

\* C15: when the write of _metadata.json failed the run is over with the
\* write error logged as the job failure and without the completion log.
C15_MetadataWriteFatal ==
  MetadataWriteFailed =>
    /\ pc = "exit"
    /\ jobError = Err("metadata", "write _metadata.json")
    /\ ~logCompleted

\* C15 witness: the write failed after every download and every
\* post-processing action of a two-batch run succeeded.
C15_Witness ==
  /\ MetadataWriteFailed
  /\ Len(success) > maxConcurrentDownloads
  /\ failed = <<>>
  /\ procErrors = 0
  /\ Len(processed) = Len(success)

\* C16: every download that was started eventually settles, and a batch
\* that is awaited is eventually over.
C16_DownloadsSettle ==
  /\ \A k \in 1..(MaxLinks + 1) :
       (k <= Len(dl) /\ dl[k] = "requesting") ~> (k <= Len(dl) /\ dl[k] \in Settled)
  /\ (pc = "await") ~> (pc = "batch")

\* Some download of the run has been started.
DownloadStarted == \E k \in 1..Len(dl) : dl[k] # "idle"

\* A step that respects the order of the phases: a download starts only from
\* the loop of downloadAllFiles, the link list of a started download phase is
\* left alone, and a written _metadata.json is not written again.
PhaseStep ==
  /\ (\E k \in 1..Len(dl) : dl[k] = "idle" /\ dl'[k] # "idle") => pc = "batch"
  /\ DownloadStarted => links' = links
  /\ processed' # processed => \A k \in 1..Len(dl) : dl[k] \in Settled \cup {"idle"}
  /\ metadataFile # NoFile => metadataFile' = metadataFile
  /\ metadataFile' # metadataFile =>
       /\ pc = "save"
       /\ p = Len(success)
       /\ Len(processed) = Len(success)

\* C17: the phases are sequential. Downloads exist only once link extraction
\* is over, post-processing actions exist only when every download of the
\* link list is settled, and _metadata.json is written at most once, after
\* the post-processing of every successful file is over.
C17_PhasesSequential ==
  /\ [](DownloadStarted => pc \in {"batch", "await", "process", "unzip", "save", "exit"})
  /\ [](processed # <<>> => \A k \in 1..Len(dl) : dl[k] \in Settled)
  /\ [](metadataFile # NoFile => p = Len(success) /\ pc = "exit")
  /\ [][PhaseStep]_vars

\* C17 witness: _metadata.json is written at the end of a run of two batches
\* with a failed download and post-processing actions.
C17_Witness ==
  /\ metadataFile # NoFile
  /\ Len(links) > maxConcurrentDownloads
  /\ failed # <<>>
  /\ processed # <<>>

\* C19: in the download phase _links.json holds the extracted link list.
C19_LinksPersisted ==
  pc \in {"batch", "await"} => linksFile = {links}

\* Links a and b of the run have suggested filenames with one sanitized form.
Collide(a, b) ==
  /\ a # b
  /\ Sanitize(links[a].filename) = Sanitize(links[b].filename)

\* C20: two colliding links whose transfers both completed are both in
\* results.success, under their own suggested filenames and with the one
\* filePath of the sanitized form, and neither is in results.failed.
C20_CollisionsOverwrite ==
  \A a, b \in 1..Len(dl) :
    (Collide(a, b) /\ dl[a] = "resolved" /\ dl[b] = "resolved") =>
      /\ \E x, y \in 1..Len(success) :
           /\ success[x].idx = a
           /\ success[y].idx = b
           /\ success[x].filename = links[a].filename
           /\ success[y].filename = links[b].filename
           /\ success[x].filePath = PathJoin(DownloadDir, Sanitize(links[a].filename))
           /\ success[y].filePath = success[x].filePath
      /\ \A f \in 1..Len(failed) : failed[f].idx \notin {a, b}

\* C20 witness: two links with distinct suggested filenames were downloaded
\* to one filePath.
C20_Witness ==
  \E a, b \in 1..Len(dl) :
    /\ Collide(a, b)
    /\ links[a].filename # links[b].filename
    /\ dl[a] = "resolved"
    /\ dl[b] = "resolved"

====
